---- MODULE Spec2Model ----
(***************************************************************************)
(* A model of crates/plugins/examples/sample_dsp_plugin.c: the native      *)
(* sample DSP plugin (a one-pole low-pass filter for force feedback) and   *)
(* the host that drives it through create / process / destroy / get_info.  *)
(*                                                                         *)
(* The C `float` is modelled as a binary floating-point format of reduced  *)
(* size: MantBits bits of significand, a smallest quantum of 2^-FracBits,  *)
(* magnitudes below 2^IntBits, round-to-nearest-even, overflow to the      *)
(* infinities, and NaN.  A finite float is held as the integer number of   *)
(* quanta it equals; the infinities and NaN are the integers just beyond   *)
(* the finite range.  There is one zero (the sign of zero is not kept).    *)
(***************************************************************************)
EXTENDS Integers, FiniteSets, Sequences, TLC

(***************************************************************************)
(* Bounds of the model.                                                    *)
(***************************************************************************)
MantBits == 8
FracBits == 12
IntBits == 10
NumAddr == 2
MaxCreates == 2
MaxTicks == 2

(***************************************************************************)
(* The float format.                                                       *)
(***************************************************************************)
RECURSIVE Pow2(_)
Pow2(k) == IF k <= 0 THEN 1 ELSE 2 * Pow2(k - 1)

RECURSIVE BitLen(_)
BitLen(n) == IF n <= 0 THEN 0 ELSE 1 + BitLen(n \div 2)

RECURSIVE Tz(_)
Tz(n) == IF n = 0 \/ n % 2 = 1 THEN 0 ELSE 1 + Tz(n \div 2)

Abs(n) == IF n < 0 THEN -n ELSE n

Width == FracBits + IntBits

PInf == Pow2(Width)
NInf == -PInf
NaN == PInf + 1

IsNaN(x) == x = NaN
IsInf(x) == x = PInf \/ x = NInf
IsFinite(x) == NInf < x /\ x < PInf

Sgn(x) == IF x < 0 THEN -1 ELSE 1
Mant(x) == Abs(x) \div Pow2(Tz(Abs(x)))

\* a / d rounded to the nearest integer, ties to even (a >= 0, d > 0)
RNE(a, d) ==
    LET q == a \div d
        r == a % d
    IN  IF 2 * r > d \/ (2 * r = d /\ q % 2 = 1) THEN q + 1 ELSE q

\* The magnitude (a / d) * 2^s quanta (a >= 0, d > 0) rounded to the format:
\* to MantBits significant bits, never finer than one quantum, PInf on overflow.
RoundScaled(a, d, s) ==
    IF a = 0 THEN 0
    ELSE
    LET k  == MantBits + 2 + BitLen(d) - BitLen(a)
        n  == IF k >= 0 THEN a * Pow2(k) ELSE a
        dd == IF k >= 0 THEN d ELSE d * Pow2(-k)
        t  == s - k
        L  == BitLen(n \div dd)
        sh == L - MantBits
    IN  IF sh + t >= 0
        THEN IF L - 1 + t >= Width THEN PInf
             ELSE LET r == RNE(n, dd * Pow2(sh)) * Pow2(sh + t)
                  IN  IF r >= PInf THEN PInf ELSE r
        ELSE IF -t > L + 1 THEN 0
             ELSE RNE(n, dd * Pow2(-t))

\* the float nearest to the rational n / d
F(n, d) == Sgn(n) * RoundScaled(Abs(n), d, FracBits)

Zero == 0
One == F(1, 1)

\* float negation, addition, subtraction, multiplication, division
FNeg(x) == IF IsNaN(x) THEN NaN ELSE -x

FAdd(x, y) ==
    IF IsNaN(x) \/ IsNaN(y) THEN NaN
    ELSE IF IsInf(x) THEN (IF IsInf(y) /\ y # x THEN NaN ELSE x)
    ELSE IF IsInf(y) THEN y
    ELSE Sgn(x + y) * RoundScaled(Abs(x + y), 1, 0)

FSub(x, y) == FAdd(x, FNeg(y))

FMul(x, y) ==
    IF IsNaN(x) \/ IsNaN(y) THEN NaN
    ELSE IF IsInf(x) \/ IsInf(y)
         THEN (IF x = 0 \/ y = 0 THEN NaN ELSE Sgn(x) * Sgn(y) * PInf)
    ELSE IF x = 0 \/ y = 0 THEN 0
    ELSE Sgn(x) * Sgn(y)
         * RoundScaled(Mant(x) * Mant(y), 1,
                       Tz(Abs(x)) + Tz(Abs(y)) - FracBits)

FDiv(x, y) ==
    IF IsNaN(x) \/ IsNaN(y) THEN NaN
    ELSE IF IsInf(x) THEN (IF IsInf(y) THEN NaN ELSE Sgn(x) * Sgn(y) * PInf)
    ELSE IF IsInf(y) THEN 0
    ELSE IF y = 0 THEN (IF x = 0 THEN NaN ELSE Sgn(x) * PInf)
    ELSE IF x = 0 THEN 0
    ELSE Sgn(x) * Sgn(y)
         * RoundScaled(Mant(x), Mant(y),
                       Tz(Abs(x)) - Tz(Abs(y)) + FracBits)

\* float comparisons: every comparison with NaN is false
FLt(x, y) == ~IsNaN(x) /\ ~IsNaN(y) /\ x < y
FLe(x, y) == ~IsNaN(x) /\ ~IsNaN(y) /\ x <= y
FEq(x, y) == ~IsNaN(x) /\ ~IsNaN(y) /\ x = y

(***************************************************************************)
(* Pointers, the heap and the host's inputs.                               *)
(***************************************************************************)
NULL == 0
PLUGIN_ABI_VERSION == 1

Addr == 1 .. NumAddr                \* the blocks malloc can hand out
HostSlot == NumAddr + 1             \* the host's float that &ffb_out points to
Id == 1 .. MaxCreates               \* the n-th successful create

\* configuration buffers the host may pass: (pointer, length, bytes)
NullConfig       == [ptr |-> NULL, len |-> 0, bytes |-> << >>]
EmptyConfig      == [ptr |-> 1, len |-> 0, bytes |-> << >>]
MalformedConfig  == [ptr |-> 1, len |-> 1, bytes |-> <<255>>]
ZeroCutoffConfig == [ptr |-> 1, len |-> 2, bytes |-> <<0, 100>>]
ConfigBuffers == {NullConfig, EmptyConfig, MalformedConfig, ZeroCutoffConfig}

\* The content of a block that is not allocated is indeterminate: it is held
\* as this one value, and a read of it finds any of StaleReads.
Indeterminate == [cutoff_freq |-> NaN, sample_rate |-> NaN,
                  previous_output |-> NaN, frame_count |-> 0]
StaleReads ==
    {[cutoff_freq |-> F(50, 1), sample_rate |-> F(1000, 1),
      previous_output |-> One, frame_count |-> 1],
     [cutoff_freq |-> Zero, sample_rate |-> Zero,
      previous_output |-> Zero, frame_count |-> 0]}

NoInfo == [name |-> "", version |-> "", author |-> "", description |-> "",
           abi_version |-> 0]
Unwritten == [written |-> FALSE, val |-> Zero]

VARIABLES
    mem,        \* mem[a]: the PluginState stored in block a
    freeCnt,    \* freeCnt[a]: how many times block a is on malloc's free list
    inst,       \* inst[i]: lifecycle state and block of the i-th created instance
    succ,       \* succ[i]: process calls on live instance i that returned 0
    out,        \* the host's output slot for the call: written or not, value
    last,       \* the last call: pointers passed, value returned, and the
                \* operands and locals of the filter when it ran
    crashed,    \* the process was killed by a fault
    ticks       \* control-loop ticks so far: process calls that ran the filter

vars == <<mem, freeCnt, inst, succ, out, last, crashed, ticks>>

NoCall == [op |-> "none", state_ptr |-> NULL, config |-> NullConfig,
           ffb_out |-> NULL, malloc |-> NULL, ret |-> 0,
           ffb_in |-> Zero, wheel_speed |-> Zero, wheel_angle |-> Zero,
           dt |-> Zero, rc |-> Zero, alpha |-> Zero, prev |-> Zero,
           output |-> Zero, pre |-> Indeterminate, post |-> Indeterminate,
           dangling |-> FALSE, info |-> NoInfo]

Created(i) == inst[i].st = "Created"
LiveAddrs == {inst[i].addr : i \in {j \in Id : Created(j)}}
StaleAddrs == {inst[i].addr : i \in {j \in Id : inst[j].st = "Destroyed"}}
                 \ LiveAddrs
Allocated == {a \in Addr : freeCnt[a] = 0}
FreeBlocks == {a \in Addr : freeCnt[a] > 0}
\* malloc is first-fit: it fails, or hands out the lowest block of its free list
MallocResults ==
    {NULL} \cup {a \in FreeBlocks : \A b \in FreeBlocks : a <= b}
NextId == Cardinality({i \in Id : inst[i].st # "Uninitialized"}) + 1

Init ==
    /\ mem = [a \in Addr |-> Indeterminate]
    /\ freeCnt = [a \in Addr |-> 1]
    /\ inst = [i \in Id |-> [st |-> "Uninitialized", addr |-> NULL]]
    /\ succ = [i \in Id |-> 0]
    /\ out = Unwritten
    /\ last = NoCall
    /\ crashed = FALSE
    /\ ticks = 0

(***************************************************************************)
(* plugin_create                                                           *)
(***************************************************************************)
\* (a create that took the cutoff from the first configuration byte)
InitStateFromConfig(config) ==
    [cutoff_freq |-> IF config.len > 0 THEN F(config.bytes[1], 1) ELSE F(50, 1),
     sample_rate |-> F(1000, 1),
     previous_output |-> Zero,
     frame_count |-> 0]

\* the state create writes into the fresh block; the config is not read
InitState(config) ==
    [cutoff_freq |-> F(50, 1),
     sample_rate |-> F(1000, 1),
     previous_output |-> Zero,
     frame_count |-> 0]

\* (a create without the check of malloc's result)
AllocFailedUnchecked(p) == FALSE

\* if (!state) return NULL;
AllocFailed(p) == p = NULL

\* p is what malloc(sizeof(PluginState)) returns
Create(config, p) ==
    /\ ~crashed
    /\ p \in MallocResults
    /\ p # NULL => NextId <= MaxCreates
    /\ out' = Unwritten
    /\ IF AllocFailed(p)
       THEN /\ last' = [NoCall EXCEPT !.op = "create", !.config = config,
                                      !.malloc = p, !.ret = NULL]
            /\ UNCHANGED <<mem, freeCnt, inst, succ, crashed, ticks>>
       ELSE IF p = NULL
       THEN \* a store through the null pointer
            /\ crashed' = TRUE
            /\ last' = [NoCall EXCEPT !.op = "create", !.config = config,
                                      !.malloc = p]
            /\ UNCHANGED <<mem, freeCnt, inst, succ, ticks>>
       ELSE /\ mem' = [mem EXCEPT ![p] = InitState(config)]
            /\ freeCnt' = [freeCnt EXCEPT ![p] = @ - 1]
            /\ inst' = [inst EXCEPT ![NextId] = [st |-> "Created", addr |-> p]]
            /\ succ' = [succ EXCEPT ![NextId] = 0]
            /\ last' = [NoCall EXCEPT !.op = "create", !.config = config,
                                      !.malloc = p, !.ret = p]
            /\ UNCHANGED <<crashed, ticks>>

(***************************************************************************)
(* plugin_process                                                          *)
(***************************************************************************)
\* 2.0f * M_PI * cutoff_freq and the division are done in double and the
\* quotient is converted to float: one rounding of 1 / (2 pi cutoff_freq),
\* with pi = 355 / 113
Rc(cutoff_freq) ==
    IF IsNaN(cutoff_freq) THEN NaN
    ELSE IF IsInf(cutoff_freq) THEN Zero
    ELSE IF cutoff_freq = 0 THEN PInf
    ELSE Sgn(cutoff_freq)
         * RoundScaled(113, 710 * Mant(cutoff_freq),
                       2 * FracBits - Tz(Abs(cutoff_freq)))

\* float alpha = dt / (rc + dt);
Alpha(rc, dt) == FDiv(dt, FAdd(rc, dt))

\* (a filter that keeps a gain in a global: after the first tick of the
\* process it mixes in 1 in place of the instance's previous output)
OutputWithGlobalGain(alpha, ffb_in, previous_output) ==
    FAdd(FMul(alpha, ffb_in),
         FMul(FSub(One, alpha), IF ticks = 0 THEN previous_output ELSE One))

\* (a filter that passes its input through)
OutputUnfiltered(alpha, ffb_in, previous_output) == ffb_in

\* float output = alpha * ffb_in + (1.0f - alpha) * state->previous_output;
Output(alpha, ffb_in, previous_output) ==
    FAdd(FMul(alpha, ffb_in), FMul(FSub(One, alpha), previous_output))

\* (a process that does not count the frame)
FrameCountKept(frame_count) == frame_count

\* state->frame_count++;
FrameCountNext(frame_count) == frame_count + 1

\* (a process that checks the instance only)
ArgsInvalidNoOutCheck(state_ptr, ffb_out) == state_ptr = NULL

\* if (!state || !ffb_out) return -1;
ArgsInvalid(state_ptr, ffb_out) == state_ptr = NULL \/ ffb_out = NULL

\* (a filter that keeps its previous output in one static shared by all
\* instances)
StoreFrameShared(state_ptr, s, output) ==
    [a \in Addr |->
        IF a = state_ptr
        THEN [s EXCEPT !.previous_output = output,
                       !.frame_count = FrameCountNext(@)]
        ELSE [mem[a] EXCEPT !.previous_output = output]]

\* state->previous_output = output; ... state->frame_count++;
\* the heap after the two stores through state_ptr, which read s
StoreFrame(state_ptr, s, output) ==
    [mem EXCEPT ![state_ptr] =
        [s EXCEPT !.previous_output = output,
                  !.frame_count = FrameCountNext(@)]]

ProcessCall(state_ptr, ffb_out) ==
    [NoCall EXCEPT !.op = "process", !.state_ptr = state_ptr,
                   !.ffb_out = ffb_out]

\* The body of plugin_process on the PluginState s read through state_ptr.
ProcessBody(state_ptr, s, ffb_in, dt, ffb_out, call) ==
    LET rc     == Rc(s.cutoff_freq)
        alpha  == Alpha(rc, dt)
        output == Output(alpha, ffb_in, s.previous_output)
        locals == [call EXCEPT !.ffb_in = ffb_in, !.dt = dt, !.rc = rc,
                               !.alpha = alpha, !.prev = s.previous_output,
                               !.output = output, !.pre = s]
    IN  IF ffb_out = NULL
        THEN \* previous_output is stored, then the store through ffb_out faults
             /\ mem' = [mem EXCEPT ![state_ptr] =
                            [s EXCEPT !.previous_output = output]]
             /\ crashed' = TRUE
             /\ out' = Unwritten
             /\ last' = [locals EXCEPT !.post = mem'[state_ptr]]
             /\ ticks' = ticks + 1
             /\ UNCHANGED <<freeCnt, inst, succ>>
        ELSE /\ mem' = StoreFrame(state_ptr, s, output)
             /\ out' = [written |-> TRUE, val |-> output]
             /\ succ' = [i \in Id |->
                            IF Created(i) /\ inst[i].addr = state_ptr
                            THEN succ[i] + 1 ELSE succ[i]]
             /\ last' = [locals EXCEPT !.ret = 0, !.post = mem'[state_ptr]]
             /\ ticks' = ticks + 1
             /\ UNCHANGED <<freeCnt, inst, crashed>>

\* process on NULL or on the handle of a created instance
Process(state_ptr, ffb_in, wheel_speed, wheel_angle, dt, ffb_out) ==
    /\ ~crashed
    /\ state_ptr \in {NULL} \cup LiveAddrs
    /\ IF ArgsInvalid(state_ptr, ffb_out)
       THEN /\ last' = [ProcessCall(state_ptr, ffb_out) EXCEPT !.ret = -1]
            /\ out' = Unwritten
            /\ UNCHANGED <<mem, freeCnt, inst, succ, crashed, ticks>>
       ELSE IF state_ptr = NULL
       THEN \* state->cutoff_freq is read through the null pointer
            /\ crashed' = TRUE
            /\ last' = ProcessCall(state_ptr, ffb_out)
            /\ out' = Unwritten
            /\ UNCHANGED <<mem, freeCnt, inst, succ, ticks>>
       ELSE /\ ticks < MaxTicks
            /\ ProcessBody(state_ptr, mem[state_ptr], ffb_in, dt, ffb_out,
                           [ProcessCall(state_ptr, ffb_out)
                               EXCEPT !.wheel_speed = wheel_speed,
                                      !.wheel_angle = wheel_angle])

\* process on the handle of a destroyed instance (a host bug): the block is
\* read and written after free.  The access faults, or it goes through.
ProcessDangling(state_ptr, ffb_in, wheel_speed, wheel_angle, dt, ffb_out) ==
    /\ ~crashed
    /\ state_ptr \in StaleAddrs
    /\ ~ArgsInvalid(state_ptr, ffb_out)
    /\ ticks < MaxTicks
    /\ LET call == [ProcessCall(state_ptr, ffb_out)
                       EXCEPT !.dangling = TRUE,
                              !.wheel_speed = wheel_speed,
                              !.wheel_angle = wheel_angle]
       IN  \/ /\ crashed' = TRUE
              /\ last' = call
              /\ out' = Unwritten
              /\ UNCHANGED <<mem, freeCnt, inst, succ, ticks>>
           \/ \E s \in StaleReads :
                 ProcessBody(state_ptr, s, ffb_in, dt, ffb_out, call)

(***************************************************************************)
(* plugin_destroy                                                          *)
(***************************************************************************)
\* (a destroy that takes NULL to mean every block)
ReleaseAllOnNull(fc, state_ptr) ==
    IF state_ptr # NULL THEN [fc EXCEPT ![state_ptr] = @ + 1]
    ELSE [a \in Addr |-> 1]

\* (a destroy that does not free)
ReleaseNothing(fc, state_ptr) == fc

\* if (state) { free(state); }: the free list after the call
Release(fc, state_ptr) ==
    IF state_ptr # NULL THEN [fc EXCEPT ![state_ptr] = @ + 1] ELSE fc

\* the instances whose block the call released are destroyed
AfterRelease(fc) ==
    [i \in Id |-> IF Created(i) /\ fc[inst[i].addr] > freeCnt[inst[i].addr]
                  THEN [inst[i] EXCEPT !.st = "Destroyed"] ELSE inst[i]]

\* the content of the blocks the call released becomes indeterminate
MemAfterRelease(fc) ==
    [a \in Addr |-> IF fc[a] > freeCnt[a] THEN Indeterminate ELSE mem[a]]

\* destroy on NULL or on the handle of a created instance
Destroy(state_ptr) ==
    /\ ~crashed
    /\ state_ptr \in {NULL} \cup LiveAddrs
    /\ freeCnt' = Release(freeCnt, state_ptr)
    /\ inst' = AfterRelease(freeCnt')
    /\ mem' = MemAfterRelease(freeCnt')
    /\ succ' = [i \in Id |-> IF inst'[i].st = "Created" THEN succ[i] ELSE 0]
    /\ out' = Unwritten
    /\ last' = [NoCall EXCEPT !.op = "destroy", !.state_ptr = state_ptr]
    /\ UNCHANGED <<crashed, ticks>>

\* destroy on the handle of a destroyed instance (a host bug): a double free.
\* The allocator aborts, or it puts the block on its free list a second time.
DestroyDangling(state_ptr) ==
    /\ ~crashed
    /\ state_ptr \in StaleAddrs
    /\ freeCnt[state_ptr] < 2
    /\ out' = Unwritten
    /\ last' = [NoCall EXCEPT !.op = "destroy", !.state_ptr = state_ptr,
                              !.dangling = TRUE]
    /\ UNCHANGED ticks
    /\ \/ /\ crashed' = TRUE
          /\ UNCHANGED <<mem, freeCnt, inst, succ>>
       \/ /\ freeCnt' = Release(freeCnt, state_ptr)
          /\ UNCHANGED <<mem, inst, succ, crashed>>

(***************************************************************************)
(* plugin_get_info                                                         *)
(***************************************************************************)
\* (a plugin built against ABI version 2)
PluginInfoAbi2 ==
    [name |-> "Sample DSP Filter", version |-> "1.0.0",
     author |-> "Racing Wheel Suite",
     description |-> "Simple low-pass filter for force feedback",
     abi_version |-> 2]

\* the PluginInfo that plugin_get_info fills in and returns by value
PluginInfo ==
    [name |-> "Sample DSP Filter", version |-> "1.0.0",
     author |-> "Racing Wheel Suite",
     description |-> "Simple low-pass filter for force feedback",
     abi_version |-> PLUGIN_ABI_VERSION]

GetInfo ==
    /\ ~crashed
    /\ last' = [NoCall EXCEPT !.op = "get_info", !.info = PluginInfo]
    /\ out' = Unwritten
    /\ UNCHANGED <<mem, freeCnt, inst, succ, crashed, ticks>>

(***************************************************************************)
(* The host.                                                               *)
(***************************************************************************)
RcDefault == Rc(F(50, 1))

\* The floats the host passes: zero, finite and infinite inputs; a tick of
\* 0, of 1 ms, of -rc (where rc + dt = 0) and of infinite length.
FfbVals == {Zero, One, PInf}
DtVals == {Zero, F(1, 1000), FNeg(RcDefault), PInf}
WheelVals == {Zero}
OutPtrs == {NULL, HostSlot}

\* A call that line 58 rejects returns before it reads a float argument:
\* one value stands for all of S there.
FloatArgs(S, state_ptr, ffb_out) ==
    IF ArgsInvalid(state_ptr, ffb_out) THEN {Zero} ELSE S

\* a host that keeps to the lifecycle: handles are NULL or of live instances;
\* it passes the floats of ffbs, wheels and dts
NextOn(ffbs, wheels, dts) ==
    \/ \E config \in ConfigBuffers, p \in MallocResults : Create(config, p)
    \/ \E h \in {NULL} \cup LiveAddrs, ffb_out \in OutPtrs :
          \E ffb_in \in FloatArgs(ffbs, h, ffb_out),
             ws \in FloatArgs(wheels, h, ffb_out),
             wa \in FloatArgs(wheels, h, ffb_out),
             dt \in FloatArgs(dts, h, ffb_out) :
             Process(h, ffb_in, ws, wa, dt, ffb_out)
    \/ \E h \in {NULL} \cup LiveAddrs : Destroy(h)
    \/ GetInfo

Next == NextOn(FfbVals, WheelVals, DtVals)

Spec == Init /\ [][Next]_vars

\* a host that may also pass the handle of a destroyed instance
NextMisuse ==
    \/ Next
    \/ \E h \in StaleAddrs, ffb_in \in FfbVals, ws \in WheelVals,
          wa \in WheelVals, dt \in DtVals, ffb_out \in OutPtrs :
          ProcessDangling(h, ffb_in, ws, wa, dt, ffb_out)
    \/ \E h \in StaleAddrs : DestroyDangling(h)

SpecMisuse == Init /\ [][NextMisuse]_vars

\* a host that varies the wheel speed and the wheel angle it reports
WheelFfbVals == {Zero, One}
WheelDtVals == {F(1, 1000)}
WheelVarVals == {Zero, One}
NextWheel == NextOn(WheelFfbVals, WheelVarVals, WheelDtVals)

SpecWheel == Init /\ [][NextWheel]_vars

\* a host that ticks every 1 ms and passes inputs of 0 and of four quanta
\* (the smallest positive floats: 5.6e-45f is four quanta of the C float)
DecayFfbVals == {Zero, 4}
DecayDtVals == {F(1, 1000)}
NextDecay == NextOn(DecayFfbVals, WheelVals, DecayDtVals)

SpecDecay == Init /\ [][NextDecay]_vars

\* a host that holds the input at 0 or at 0.1 and ticks every 0.1 s or 1 s
SettleFfbVals == {Zero, F(1, 10)}
SettleDtVals == {F(1, 10), One}
NextSettle == NextOn(SettleFfbVals, WheelVals, SettleDtVals)

SpecSettle == Init /\ [][NextSettle]_vars

(***************************************************************************)
(* The claims.                                                             *)
(***************************************************************************)
DefaultState ==
    [cutoff_freq |-> F(50, 1), sample_rate |-> F(1000, 1),
     previous_output |-> Zero, frame_count |-> 0]

\* C1: a process call with a null instance handle or a null output slot
\* returns a negative status, writes nothing to the output slot, faults on
\* nothing and leaves the state of every instance unchanged.
C1_NullArgsRejected ==
    [][(last'.op = "process"
        /\ (last'.state_ptr = NULL \/ last'.ffb_out = NULL))
       => /\ last'.ret < 0
          /\ ~out'.written
          /\ ~crashed'
          /\ mem' = mem /\ inst' = inst /\ freeCnt' = freeCnt]_vars

\* a process call on a live instance that has processed frames, with a null
\* output slot, has returned -1
C1_Witness ==
    /\ last.op = "process"
    /\ last.state_ptr \in LiveAddrs
    /\ last.ffb_out = NULL
    /\ last.ret = -1
    /\ mem[last.state_ptr].frame_count > 0

\* C2: the frame_count of every created instance equals the number of
\* process calls on it that returned 0 (0 after create, one more after each
\* successful call, the same after a failed call or a call on another
\* instance).
C2_FrameCountCountsSuccesses ==
    \A i \in Id : Created(i) => mem[inst[i].addr].frame_count = succ[i]

\* two live instances with different counts, right after a failed call
C2_Witness ==
    /\ last.op = "process" /\ last.ret = -1
    /\ \E i, j \in Id :
          /\ Created(i) /\ Created(j)
          /\ succ[i] = 2 /\ succ[j] = 0
          /\ mem[inst[i].addr].frame_count = 2

Creates == Cardinality({i \in Id : inst[i].st # "Uninitialized"})
Destroys == Cardinality({i \in Id : inst[i].st = "Destroyed"})

LifecycleStep ==
    \A i \in Id :
       /\ (inst[i].st = "Uninitialized" /\ inst'[i].st # "Uninitialized")
             => inst'[i].st = "Created" /\ last'.op = "create"
                /\ last'.ret = inst'[i].addr
       /\ (Created(i) /\ inst'[i].st # "Created")
             => inst'[i].st = "Destroyed" /\ last'.op = "destroy"
                /\ last'.state_ptr = inst[i].addr
       /\ (Created(i) /\ last'.op = "process") => inst'[i] = inst[i]
       /\ (Created(i) /\ last'.op = "destroy"
           /\ last'.state_ptr = inst[i].addr)
             => inst'[i].st = "Destroyed" /\ freeCnt'[inst[i].addr] > 0
       /\ inst[i].st = "Destroyed" => inst'[i] = inst[i]

LifecycleInv ==
    /\ Allocated = LiveAddrs
    /\ \A i, j \in Id : Created(i) /\ Created(j) /\ i # j
                           => inst[i].addr # inst[j].addr
    /\ Cardinality(Allocated) = Creates - Destroys
    /\ (\A i \in Id : inst[i].st # "Created") => Allocated = {}

\* C3: an instance goes Uninitialized -> Created only by create, stays
\* Created under process, goes Created -> Destroyed by destroy, which
\* releases its block, and never leaves Destroyed; with one destroy per
\* create the blocks still allocated are those of the created instances,
\* creates minus destroys in number, and none once all are destroyed.
C3_Lifecycle == [](LifecycleInv) /\ [][LifecycleStep]_vars

\* a destroyed instance whose block a later create has handed out again
C3_Witness ==
    \E i, j \in Id :
       /\ inst[i].st = "Destroyed" /\ Created(j)
       /\ inst[i].addr = inst[j].addr
       /\ last.op = "process" /\ last.ret = 0

\* C4: process on the handle of a destroyed instance returns a negative
\* status and writes nothing, and a second destroy of a handle does not
\* release its block a second time.
C4_GracefulOnMisuse ==
    /\ (last.op = "process" /\ last.dangling /\ ~crashed)
          => last.ret < 0 /\ ~out.written
    /\ \A a \in Addr : freeCnt[a] <= 1

\* C5: whatever the configuration buffer, create returns the block malloc
\* gave it, holding cutoff_freq = 50, sample_rate = 1000,
\* previous_output = 0, frame_count = 0 and nothing else.
C5_CreateGivesDefaults ==
    last.op = "create"
       => /\ ~crashed
          /\ last.ret = last.malloc
          /\ last.ret # NULL => mem[last.ret] = DefaultState

\* create has succeeded on a malformed configuration
C5_Witness ==
    last.op = "create" /\ last.config = MalformedConfig /\ last.ret # NULL

\* C6: when malloc fails, create returns NULL without a fault and neither
\* creates nor changes an instance.
C6_AllocFailureReturnsNull ==
    [][(last'.op = "create" /\ last'.malloc = NULL)
       => /\ last'.ret = NULL
          /\ ~crashed'
          /\ mem' = mem /\ inst' = inst /\ freeCnt' = freeCnt
          /\ succ' = succ]_vars

\* a create has failed while an instance that has processed frames is live
C6_Witness ==
    /\ last.op = "create" /\ last.malloc = NULL /\ last.ret = NULL
    /\ \E i \in Id : Created(i) /\ succ[i] > 0

\* C7: destroy(NULL) releases nothing, faults on nothing and leaves every
\* instance and its lifecycle state unchanged.
C7_DestroyNullIsNoOp ==
    [][(last'.op = "destroy" /\ last'.state_ptr = NULL)
       => /\ ~crashed'
          /\ mem' = mem /\ inst' = inst /\ freeCnt' = freeCnt
          /\ succ' = succ]_vars

\* destroy(NULL) has returned while one instance is live and one destroyed
C7_Witness ==
    /\ last.op = "destroy" /\ last.state_ptr = NULL
    /\ \E i, j \in Id : Created(i) /\ succ[i] > 0 /\ inst[j].st = "Destroyed"

\* C8: a successful process call with dt = 0 computes alpha = 0 and writes
\* an output equal to the prior output, which stays the previous_output.
C8_DtZeroHoldsOutput ==
    (last.op = "process" /\ last.ret = 0 /\ last.dt = Zero)
       => /\ last.alpha = Zero
          /\ out.val = last.prev
          /\ mem[last.state_ptr].previous_output = last.prev

\* C9: for dt > 0 and cutoff_freq > 0 the alpha that process computes lies
\* in (0, 1].
C9_AlphaInUnitInterval ==
    (last.op = "process" /\ last.ret = 0 /\ FLt(Zero, last.dt)
     /\ FLt(Zero, mem[last.state_ptr].cutoff_freq))
       => FLt(Zero, last.alpha) /\ FLe(last.alpha, One)

\* C10: the cutoff_freq of every created instance is strictly positive,
\* whatever configuration create was given, and the rc process computes from
\* it is finite and positive.
C10_CutoffPositive ==
    /\ \A i \in Id : Created(i) =>
          /\ FLt(Zero, mem[inst[i].addr].cutoff_freq)
          /\ IsFinite(Rc(mem[inst[i].addr].cutoff_freq))
          /\ FLt(Zero, Rc(mem[inst[i].addr].cutoff_freq))
    /\ (last.op = "process" /\ last.ret = 0)
          => IsFinite(last.rc) /\ FLt(Zero, last.rc)

\* create has succeeded on a configuration whose bytes say cutoff 0, beside
\* an instance that has processed frames
C10_Witness ==
    /\ last.op = "create" /\ last.config = ZeroCutoffConfig
    /\ last.ret # NULL
    /\ \E i \in Id : Created(i) /\ succ[i] > 0

\* the call c ran the filter (line 58 did not reject it)
Ran(c) == c.op = "process" /\ c.state_ptr # NULL /\ c.ffb_out # NULL

C12_ProcessWritesFilteredOutput ==
    /\ Ran(last)
          => /\ last.ret = 0
             /\ out.written
             /\ out.val = mem[last.state_ptr].previous_output
             /\ out.val = FAdd(FMul(last.alpha, last.ffb_in),
                               FMul(FSub(One, last.alpha), last.prev))
             /\ last.alpha = FDiv(last.dt, FAdd(last.rc, last.dt))
    /\ (last.op = "process" /\ last.ret = 0) => out.written
    /\ (last.op = "process" /\ last.ret < 0) => ~out.written

\* the second frame of an instance: the output written lies strictly between
\* the previous output, which is not 0, and the input
C12_Witness ==
    /\ Ran(last) /\ last.ret = 0
    /\ mem[last.state_ptr].frame_count = 2
    /\ FLt(Zero, last.prev)
    /\ FLt(last.prev, out.val)
    /\ FLt(out.val, last.ffb_in)

\* C13: get_info can be called in every lifecycle state (before any create,
\* beside live instances, after destroy); every call returns the same
\* metadata, with ABI version 1, and creates, changes and releases no
\* instance.
C13_GetInfoStateless ==
    /\ [](~crashed => ENABLED GetInfo)
    /\ [][last'.op = "get_info"
           => /\ last'.info =
                    [name |-> "Sample DSP Filter", version |-> "1.0.0",
                     author |-> "Racing Wheel Suite",
                     description |->
                         "Simple low-pass filter for force feedback",
                     abi_version |-> 1]
              /\ ~crashed'
              /\ mem' = mem /\ inst' = inst /\ freeCnt' = freeCnt
              /\ succ' = succ]_vars

\* get_info has returned while one instance is destroyed and another is live
\* and has processed frames
C13_Witness ==
    /\ last.op = "get_info"
    /\ last.info.abi_version = 1
    /\ \E i, j \in Id :
          inst[i].st = "Destroyed" /\ Created(j) /\ succ[j] > 0

\* C14: on an instance with the default cutoff a successful process call
\* with ffb_in = 0 and dt > 0 writes an output whose magnitude is no larger
\* than that of the prior output and strictly smaller when the prior output
\* is not 0, and which has the prior output's sign; on a prior output of 0
\* the output is 0.
C14_ZeroInputDecays ==
    (Ran(last) /\ last.ret = 0
     /\ last.pre.cutoff_freq = F(50, 1)
     /\ last.ffb_in = Zero /\ FLt(Zero, last.dt))
       => /\ FLe(Abs(out.val), Abs(last.prev))
          /\ last.prev # Zero => FLt(Abs(out.val), Abs(last.prev))
          /\ FLt(Zero, last.prev) => FLe(Zero, out.val)
          /\ FLt(last.prev, Zero) => FLe(out.val, Zero)
          /\ last.prev = Zero => out.val = Zero

\* C15: a process call changes nothing but the previous_output and the
\* frame_count of the instance it is called on: that instance's cutoff_freq
\* and sample_rate, every field of every other instance, and which
\* instances exist and which blocks they hold stay as they were.
C15_ProcessTouchesOwnInstanceOnly ==
    [][last'.op = "process"
       => /\ \A a \in Addr :
                IF a = last'.state_ptr
                THEN /\ mem'[a].cutoff_freq = mem[a].cutoff_freq
                     /\ mem'[a].sample_rate = mem[a].sample_rate
                ELSE mem'[a] = mem[a]
          /\ inst' = inst
          /\ freeCnt' = freeCnt]_vars

\* a process call has succeeded on one of two live instances that have each
\* processed a frame and hold different previous outputs
C15_Witness ==
    /\ Ran(last) /\ last.ret = 0
    /\ \E i, j \in Id :
          /\ i # j /\ Created(i) /\ Created(j)
          /\ inst[j].addr = last.state_ptr
          /\ succ[i] = 1 /\ succ[j] = 1
          /\ mem[inst[i].addr].previous_output # Zero
          /\ mem[inst[j].addr].previous_output
                # mem[inst[i].addr].previous_output

\* C16: whatever dt a process call is given, negative or not, the
\* denominator rc + dt of its alpha is not zero and its alpha lies in [0, 1].
C16_AnyDtIsSafe ==
    (Ran(last) /\ last.ret = 0)
       => /\ FAdd(last.rc, last.dt) # Zero
          /\ FLe(Zero, last.alpha)
          /\ FLe(last.alpha, One)

\* C17: a successful process call with dt >= 0 writes an output that lies in
\* the closed interval between the prior output and ffb_in; and when every
\* input the host passes lies in [-M, M], every output written and every
\* previous_output stored lies in [-M, M].
C17_NoOvershoot ==
    /\ (Ran(last) /\ last.ret = 0 /\ FLe(Zero, last.dt))
          => \/ FLe(last.prev, out.val) /\ FLe(out.val, last.ffb_in)
             \/ FLe(last.ffb_in, out.val) /\ FLe(out.val, last.prev)
    /\ \A M \in SettleFfbVals :
          (\A x \in SettleFfbVals : FLe(Abs(x), M))
             => /\ out.written => FLe(Abs(out.val), M)
                /\ \A i \in Id : Created(i) =>
                       FLe(Abs(mem[inst[i].addr].previous_output), M)

====
